---------------------------- MODULE Spec2Model ----------------------------
(***************************************************************************)
(* A model of the Trackball controller of src/trackball.js: the drag       *)
(* state machine (#handleMouseDown, #handleMouseMove, #update,             *)
(* #handleMouseUp), the seven rotation methods, rotate() and reset().      *)
(*                                                                         *)
(* Numbers.  Azimuth and elevation are JavaScript numbers.  A number is a  *)
(* record [t, a, e]: t is "num", "undefined" (a field never assigned) or   *)
(* "NaN"; a "num" stands for  a * (pi / 4) + e * 0.01 .  Arithmetic *)
(* with undefined or NaN gives NaN, as in JavaScript.                      *)
(*                                                                         *)
(* Quaternions.  Quaternion.js is an external library; cos, sin and sqrt   *)
(* have no exact integer form.  A quaternion is therefore a reduced word   *)
(* of elementary rotations, each named by the exact arguments the code     *)
(* passes:                                                                 *)
(*    <<"T", dx, dy, m>>       the dq of #updateTrackball for delta        *)
(*                             (dx, dy) and minDim m                      *)
(*    <<"V", u, v>>            Quaternion.fromVectors(u, v)               *)
(*    <<"E", ea, ee, aa, ae>>  Quaternion.fromEuler(el, az, 0, 'XYZ')     *)
(*    <<"R", n>>               an argument of rotate()                    *)
(*    <<"NaN">>                a quaternion with NaN components           *)
(* The identity is the empty word.  Multiplication concatenates and        *)
(* cancels a rotation against its inverse (the conjugate of T(dx,dy,m) is  *)
(* T(-dx,-dy,m); fromVectors(v,u) is the inverse of fromVectors(u,v)).     *)
(* Two equal words are equal quaternions.                                  *)
(***************************************************************************)
EXTENDS Integers, Sequences, FiniteSets, TLC

\* ------------------------------------------------------------------ bounds
\* The longest committed orientation (in elementary rotations) from which
\* rotate() or a new move sample is still accepted by the model.
MaxLen == 2

\* ---------------------------------------------------------------- numbers
\* Math.PI, in angle units: the unit is pi / 4, and every
\* min(box.width, box.height) of Boxes divides 4.
PI == 4

Num(a) == [t |-> "num", a |-> a, e |-> 0]
Undefined == [t |-> "undefined", a |-> 0, e |-> 0]
NaN == [t |-> "NaN", a |-> 0, e |-> 0]
Zero == Num(0)

\* n + k * (pi / 4) for a JavaScript number n and an integer k.
AddUnits(n, k) == IF n.t = "num" THEN [n EXCEPT !.a = @ + k] ELSE NaN

\* x < y for two "num" values: 0.01 is smaller than one angle unit.
NumLess(x, y) == (x.a < y.a) \/ (x.a = y.a /\ x.e < y.e)

\* Math.min and Math.max: NaN if either argument is not a number.
MathMin(x, y) ==
  IF x.t # "num" \/ y.t # "num" THEN NaN ELSE IF NumLess(y, x) THEN y ELSE x
MathMax(x, y) ==
  IF x.t # "num" \/ y.t # "num" THEN NaN ELSE IF NumLess(x, y) THEN y ELSE x

Min2(a, b) == IF a < b THEN a ELSE b
Max2(a, b) == IF a < b THEN b ELSE a

\* ------------------------------------------------------------ quaternions
ONE == << >>
QNaN == << <<"NaN">> >>
IsNaNQ(q) == q = QNaN

\* The inverse of an elementary rotation, where the word algebra knows it.
Inv(g) ==
  IF g[1] = "T" THEN <<"T", -g[2], -g[3], g[4]>>
  ELSE IF g[1] = "V" THEN <<"V", g[3], g[2]>>
  ELSE IF g[1] = "R" THEN <<"R", -g[2]>>
  ELSE <<"none">>

RECURSIVE Cat(_, _)
\* The product of two reduced words, reduced.
Cat(a, b) ==
  IF a = << >> THEN b
  ELSE IF b = << >> THEN a
  ELSE IF Inv(a[Len(a)]) = b[1]
       THEN Cat(SubSeq(a, 1, Len(a) - 1), SubSeq(b, 2, Len(b)))
       ELSE a \o b

\* a.mul(b)
Mul(a, b) == IF IsNaNQ(a) \/ IsNaNQ(b) THEN QNaN ELSE Cat(a, b)


\* ---------------------------------------------------------- configuration
\* The seven rotation methods the constructor documents.
Methods ==
  {"azel", "trackball", "trackball_no_precession", "sphere", "shoemake",
   "rounded_arcball", "bell"}

\* opts.rotationMethod as the constructor stores it: the caller's value,
\* "undefined" when the option is omitted, any other string unchecked.
MethodInputs == Methods \cup {"undefined", "orbit"}

\* Defaults of the destructuring: ballsize 0.75 and border 0, as fractions.
DefaultBallsize == [num |-> 3, den |-> 4]
DefaultBorder == [num |-> 0, den |-> 1]
\* The border the constructor forces for 'rounded_arcball': 0.5.
RoundedBorder == [num |-> 1, den |-> 2]

\* The bounding rectangles getBoundingClientRect() may return (a DOMRect:
\* left = x, right = x + width, top = y, bottom = y + height).
Boxes ==
  {[x |-> 0, y |-> 0, width |-> 4, height |-> 4],
   [x |-> 0, y |-> 0, width |-> 8, height |-> 4]}

\* The client coordinates <<clientX, clientY>> pointer events carry.
Positions == {<<1, 1>>, <<3, 3>>, <<5, 1>>}

\* The arguments rotate() is called with: a unit quaternion and its inverse.
RotateArgs == { << <<"R", 1>> >>, << <<"R", -1>> >> }

Null == [null |-> TRUE]

VARIABLES
  given,              \* the documented options invertX, invertY and speed of
                      \* the object passed to the constructor
  opts,               \* #opts: rotationMethod, clampElevation, border, ballsize
  q0,                 \* #q0, the committed orientation
  q,                  \* #q, the current orientation
  azimuth,            \* #azimuth
  elevation,          \* #elevation
  azimuth_start,      \* #azimuth_start
  elevation_start,    \* #elevation_start
  drag,               \* #drag: Null or [startVector, startPosition, box]
  isUpdatePending,    \* #isUpdatePending
  lastMousePosition,  \* #lastMousePosition: Null or [clientX, clientY]
  frames,             \* callbacks handed to requestAnimationFrame, not yet run
  drawn,              \* the quaternions the last handler passed to onDraw
  shown,              \* the quaternion most recently passed to onDraw
  last,               \* history: the last event, [op, arg]; arg is rotate()'s
                      \* argument, what #update() did with its sample, whether
                      \* the pointer-up ended a drag, or whether the
                      \* pointer-down arrived idle or during a drag
  session             \* history: Null, or the running drag session's
                      \* [anchor, start, moves, untouched]: #q0 and the
                      \* pointer position at its latest pointer-down, how many
                      \* move samples it has applied since (counted up to
                      \* MaxMoves), and whether no sample has been applied
                      \* since the controller was last idle

vars ==
  <<given, opts, q0, q, azimuth, elevation, azimuth_start, elevation_start, drag,
    isUpdatePending, lastMousePosition, frames, drawn, shown, last, session>>

\* ------------------------------------------------------------- projection
\* #isInBounds(x, y, box)
IsInBounds(x, y, box) ==
  /\ x >= box.x /\ x <= box.x + box.width
  /\ y >= box.y /\ y <= box.y + box.height

\* #project(x, y, box).  The result [px, py, z] is kept exactly as
\* <<pxn, pyn, den, zone>>: px = pxn / den, py = pyn / den, and zone names the
\* branch that computed z from them ("cap": sqrt(1 - dist2); "skirt":
\* a - sqrt((a + dr) * (a - dr)); "flat": 0; "bell": 1 / (2 * dist)).  A method
\* that matches neither branch falls off the end: <<"undefined">>.
Project(x, y, box) ==
  LET maxDim == Max2(box.width, box.height) - 1
      bs == opts.ballsize
      bn == opts.border.num
      bd == opts.border.den
      rn == bd + bn                      \* ra = rn / bd
      pxn == (2 * (x - box.x) - box.width - 1) * bs.den
      pyn == (0 - (2 * (y - box.y) - box.height - 1)) * bs.den
      den == maxDim * bs.num
      d2n == (pxn * pxn + pyn * pyn) * rn * rn   \* dist2 = d2n / d2d
      d2d == den * den * bd * bd
      m == opts.rotationMethod
  IN IF m \in {"sphere", "shoemake", "rounded_arcball"}
     THEN IF d2n * (rn * rn + bd * bd) * (rn * rn + bd * bd)
                < 4 * rn * rn * bd * bd * d2d                 \* dist < ri
          THEN <<pxn, pyn, den, "cap">>
          ELSE IF d2n * bd * bd < rn * rn * d2d               \* dist < ra
               THEN <<pxn, pyn, den, "skirt">>
               ELSE <<pxn, pyn, den, "flat">>
     ELSE IF m = "bell"
          THEN IF 2 * d2n < d2d                               \* dist < 1/sqrt(2)
               THEN <<pxn, pyn, den, "cap">>
               ELSE <<pxn, pyn, den, "bell">>
          ELSE <<"undefined">>

\* Quaternion.fromVectors(u, v): the rotation taking u to v; the identity for
\* equal vectors.  Indexing an undefined argument throws a TypeError.
FromVectorsThrows(u, v) == u = <<"undefined">> \/ v = <<"undefined">>
FromVectors(u, v) == IF u = v THEN ONE ELSE << <<"V", u, v>> >>

\* Quaternion.fromEuler(el, az, 0, 'XYZ'): NaN components for NaN angles, the
\* identity for zero angles.
FromEuler(el, az) ==
  IF el.t # "num" \/ az.t # "num" THEN QNaN
  ELSE IF el = Zero /\ az = Zero THEN ONE
  ELSE << <<"E", el.a, el.e, az.a, az.e>> >>

\* ------------------------------------------------------- rotation methods
\* The fields #updateRotation and the methods it calls may assign, as a
\* record; threw is set when the call ends in an exception.
Fields ==
  [q0 |-> q0, q |-> q, azimuth |-> azimuth, elevation |-> elevation,
   drag |-> drag, threw |-> FALSE]

\* Math.PI / min(box.width, box.height)
Scale(box) == PI \div Min2(box.width, box.height)

\* The clamp limits -Math.PI / 2 + 0.01 and Math.PI / 2 - 0.01.
ClampLow == [t |-> "num", a |-> 0 - (PI \div 2), e |-> 1]
ClampHigh == [t |-> "num", a |-> PI \div 2, e |-> -1]

\* Mutant: 'azel' applying the Euler rotation to the committed orientation.
UpdateAzEl_OnCommitted(S, deltaX, deltaY) ==
  LET scaleX == Scale(S.drag.box)
      scaleY == scaleX
      az == AddUnits(azimuth_start, deltaX * scaleX)
      raw == AddUnits(elevation_start, deltaY * scaleY)
      el == IF opts.clampElevation
            THEN MathMax(ClampLow, MathMin(ClampHigh, raw))
            ELSE raw
  IN [S EXCEPT !.azimuth = az, !.elevation = el,
               !.q = Mul(FromEuler(el, az), S.q0)]

\* #updateAzEl(deltaX, deltaY)
UpdateAzEl(S, deltaX, deltaY) ==
  LET scaleX == Scale(S.drag.box)
      scaleY == scaleX
      az == AddUnits(azimuth_start, deltaX * scaleX)
      raw == AddUnits(elevation_start, deltaY * scaleY)
      el == IF opts.clampElevation
            THEN MathMax(ClampLow, MathMin(ClampHigh, raw))
            ELSE raw
  IN [S EXCEPT !.azimuth = az, !.elevation = el, !.q = FromEuler(el, az)]

\* The dq of #updateTrackball: cos(theta) + sin(theta) * k / norm for
\* k = [deltaY / minDim, deltaX / minDim, 0] and theta = norm * pi / 2.
TrackballDq(deltaX, deltaY, minDim) == << <<"T", deltaX, deltaY, minDim>> >>

\* Mutant: 'trackball' moving the start position without committing #q0.
UpdateTrackball_NoCommit(S, deltaX, deltaY, clientX, clientY) ==
  LET minDim == Min2(S.drag.box.height, S.drag.box.width)
      dq == TrackballDq(deltaX, deltaY, minDim)
      S1 == [S EXCEPT !.q = Mul(dq, S.q0)]
  IN IF opts.rotationMethod = "trackball"
     THEN [S1 EXCEPT !.drag.startPosition = <<clientX, clientY>>]
     ELSE S1

\* #updateTrackball(deltaX, deltaY, clientX, clientY)
UpdateTrackball(S, deltaX, deltaY, clientX, clientY) ==
  LET minDim == Min2(S.drag.box.height, S.drag.box.width)
      dq == TrackballDq(deltaX, deltaY, minDim)
      S1 == [S EXCEPT !.q = Mul(dq, S.q0)]
  IN IF opts.rotationMethod = "trackball"
     THEN [S1 EXCEPT !.q0 = S1.q, !.drag.startPosition = <<clientX, clientY>>]
     ELSE S1

\* Mutant: the arcball methods committing every sample, as 'sphere' does.
UpdateSphericalMethods_CommitsAll(S, clientX, clientY) ==
  LET currentVector == Project(clientX, clientY, S.drag.box)
      dq == FromVectors(S.drag.startVector, currentVector)
  IN IF FromVectorsThrows(S.drag.startVector, currentVector)
     THEN [S EXCEPT !.threw = TRUE]
     ELSE IF opts.rotationMethod = "sphere"
     THEN [S EXCEPT !.q = Mul(dq, S.q0), !.q0 = Mul(dq, S.q0),
                    !.drag.startVector = currentVector,
                    !.drag.startPosition = <<clientX, clientY>>]
     ELSE IF opts.rotationMethod \in {"shoemake", "rounded_arcball", "bell"}
     THEN [S EXCEPT !.q = Mul(dq, Mul(dq, S.q0)),
                    !.q0 = Mul(dq, Mul(dq, S.q0))]
     ELSE S

\* Mutant: 'sphere' committing the orientation but keeping the start vector
\* of the pointer-down.
UpdateSphericalMethods_KeepsVector(S, clientX, clientY) ==
  LET currentVector == Project(clientX, clientY, S.drag.box)
      dq == FromVectors(S.drag.startVector, currentVector)
  IN IF FromVectorsThrows(S.drag.startVector, currentVector)
     THEN [S EXCEPT !.threw = TRUE]
     ELSE IF opts.rotationMethod = "sphere"
     THEN [S EXCEPT !.q = Mul(dq, S.q0), !.q0 = Mul(dq, S.q0),
                    !.drag.startPosition = <<clientX, clientY>>]
     ELSE IF opts.rotationMethod \in {"shoemake", "rounded_arcball", "bell"}
     THEN [S EXCEPT !.q = Mul(dq, Mul(dq, S.q0))]
     ELSE S

\* #updateSphericalMethods(clientX, clientY)
UpdateSphericalMethods(S, clientX, clientY) ==
  LET currentVector == Project(clientX, clientY, S.drag.box)
      dq == FromVectors(S.drag.startVector, currentVector)
  IN IF FromVectorsThrows(S.drag.startVector, currentVector)
     THEN [S EXCEPT !.threw = TRUE]
     ELSE IF opts.rotationMethod = "sphere"
     THEN [S EXCEPT !.q = Mul(dq, S.q0), !.q0 = Mul(dq, S.q0),
                    !.drag.startVector = currentVector,
                    !.drag.startPosition = <<clientX, clientY>>]
     ELSE IF opts.rotationMethod \in {"shoemake", "rounded_arcball", "bell"}
     THEN [S EXCEPT !.q = Mul(dq, Mul(dq, S.q0))]
     ELSE S

\* Mutant: #updateRotation without the early return on a zero delta.
UpdateRotation_NoZeroGuard(S, clientX, clientY) ==
  LET deltaX == clientX - S.drag.startPosition[1]
      deltaY == clientY - S.drag.startPosition[2]
      rotationMethod == opts.rotationMethod
  IN IF rotationMethod = "azel" THEN UpdateAzEl(S, deltaX, deltaY)
     ELSE IF rotationMethod \in {"trackball", "trackball_no_precession"}
     THEN UpdateTrackball(S, deltaX, deltaY, clientX, clientY)
     ELSE UpdateSphericalMethods(S, clientX, clientY)

\* #updateRotation(clientX, clientY)
UpdateRotation(S, clientX, clientY) ==
  LET deltaX == clientX - S.drag.startPosition[1]
      deltaY == clientY - S.drag.startPosition[2]
      rotationMethod == opts.rotationMethod
  IN IF deltaX = 0 /\ deltaY = 0 THEN S
     ELSE IF rotationMethod = "azel" THEN UpdateAzEl(S, deltaX, deltaY)
     ELSE IF rotationMethod \in {"trackball", "trackball_no_precession"}
     THEN UpdateTrackball(S, deltaX, deltaY, clientX, clientY)
     ELSE UpdateSphericalMethods(S, clientX, clientY)

\* ---------------------------------------------------------------- handlers
\* Mutant: a draw that passes the orientation from before the handler's
\* assignment.
Draw_Stale(qn) == drawn' = <<q>> /\ shown' = q

\* #draw(): onDraw is called with the orientation qn the handler leaves in #q.
Draw(qn) == drawn' = <<qn>> /\ shown' = qn
\* A handler that returns without calling #draw().
NoDraw == drawn' = << >> /\ UNCHANGED shown

\* new Trackball({rotationMethod, clampElevation, q}): the options object.
Options(rotationMethod, clampElevation) ==
  [rotationMethod |-> rotationMethod,
   clampElevation |-> clampElevation,
   border |-> IF rotationMethod = "rounded_arcball"
              THEN RoundedBorder ELSE DefaultBorder,
   ballsize |-> DefaultBallsize]

\* The configurations: every method with the default clampElevation, and
\* 'azel', the one method that reads clampElevation, with it set.
Configurations ==
  {Options(m, FALSE) : m \in MethodInputs} \cup {Options("azel", TRUE)}

\* The initial orientations the q option is given: the default and another.
InitialQs == {ONE, << <<"R", 1>> >>}

\* The documented defaults invertX: false, invertY: false, speed: 1.
DefaultGiven == [invertX |-> FALSE, invertY |-> FALSE, speed |-> 1]

\* The option objects passed to the constructor: every configuration and
\* initial orientation with the three options left out, and 'azel' with each
\* one of them set to another value.  The destructuring names none of
\* the three, so #opts is the same for all of them.
Arguments ==
  {[given |-> DefaultGiven, opts |-> c, q |-> i] :
     c \in Configurations, i \in InitialQs} \cup
  {[given |-> g, opts |-> Options("azel", FALSE), q |-> ONE] :
     g \in {[DefaultGiven EXCEPT !.invertX = TRUE],
            [DefaultGiven EXCEPT !.invertY = TRUE],
            [DefaultGiven EXCEPT !.speed = 2]}}

\* The state the constructor leaves.
Init ==
  /\ \E a \in Arguments : given = a.given /\ opts = a.opts /\ q0 = a.q
  /\ q = q0
  /\ azimuth = Undefined
  /\ elevation = Undefined
  /\ azimuth_start = Zero
  /\ elevation_start = Zero
  /\ drag = Null
  /\ isUpdatePending = FALSE
  /\ lastMousePosition = Null
  /\ frames = 0
  /\ drawn = <<q0>>
  /\ shown = q0
  /\ last = [op |-> "new", arg |-> << >>]
  /\ session = Null

\* Mutant: rotate() without the test of #drag.
RotateCall_Unguarded(quaternion) ==
  /\ q0' = Mul(q0, quaternion)
  /\ q' = q0'
  /\ Draw(q')
  /\ UNCHANGED <<opts, azimuth, elevation, azimuth_start, elevation_start,
                 drag, isUpdatePending, lastMousePosition, frames>>

\* Mutant: rotate() multiplying from the left.
RotateCall_LeftMul(quaternion) ==
  IF drag = Null
  THEN /\ q0' = Mul(quaternion, q0)
       /\ q' = q0'
       /\ Draw(q')
       /\ UNCHANGED <<opts, azimuth, elevation, azimuth_start, elevation_start,
                      drag, isUpdatePending, lastMousePosition, frames>>
  ELSE /\ NoDraw
       /\ UNCHANGED <<opts, q0, q, azimuth, elevation, azimuth_start,
                      elevation_start, drag, isUpdatePending,
                      lastMousePosition, frames>>

\* rotate(quaternion)
RotateCall(quaternion) ==
  IF drag = Null
  THEN /\ q0' = Mul(q0, quaternion)
       /\ q' = q0'
       /\ Draw(q')
       /\ UNCHANGED <<opts, azimuth, elevation, azimuth_start, elevation_start,
                      drag, isUpdatePending, lastMousePosition, frames>>
  ELSE /\ NoDraw
       /\ UNCHANGED <<opts, q0, q, azimuth, elevation, azimuth_start,
                      elevation_start, drag, isUpdatePending,
                      lastMousePosition, frames>>

\* Mutant: reset() that leaves the drag session in place.
ResetCall_KeepsDrag ==
  /\ q' = ONE
  /\ q0' = ONE
  /\ azimuth' = Zero
  /\ azimuth_start' = Zero
  /\ elevation' = Zero
  /\ elevation_start' = Zero
  /\ Draw(q')
  /\ UNCHANGED <<opts, drag, isUpdatePending, lastMousePosition, frames>>

\* reset()
ResetCall ==
  /\ drag' = Null
  /\ q' = ONE
  /\ q0' = ONE
  /\ azimuth' = Zero
  /\ azimuth_start' = Zero
  /\ elevation' = Zero
  /\ elevation_start' = Zero
  /\ Draw(q')
  /\ UNCHANGED <<opts, isUpdatePending, lastMousePosition, frames>>

\* #handleMouseDown(event), with the box getBoundingClientRect() returns.
HandleMouseDown(clientX, clientY, box) ==
  /\ drag' = [startVector |-> Project(clientX, clientY, box),
              startPosition |-> <<clientX, clientY>>,
              box |-> box]
  /\ Draw(q)
  /\ UNCHANGED <<opts, q0, q, azimuth, elevation, azimuth_start,
                 elevation_start, isUpdatePending, lastMousePosition, frames>>

\* #handleMouseMove(event)
HandleMouseMove(clientX, clientY) ==
  IF drag = Null
  THEN /\ NoDraw
       /\ UNCHANGED <<opts, q0, q, azimuth, elevation, azimuth_start,
                      elevation_start, drag, isUpdatePending,
                      lastMousePosition, frames>>
  ELSE /\ lastMousePosition' = [clientX |-> clientX, clientY |-> clientY]
       /\ IF ~isUpdatePending
          THEN isUpdatePending' = TRUE /\ frames' = frames + 1
          ELSE UNCHANGED <<isUpdatePending, frames>>
       /\ NoDraw
       /\ UNCHANGED <<opts, q0, q, azimuth, elevation, azimuth_start,
                      elevation_start, drag>>

\* Mutant: #update() without the test of the sample against the session's box.
UpdateBody_NoBoundsTest ==
  IF lastMousePosition # Null /\ drag # Null
  THEN LET clientX == lastMousePosition.clientX
           clientY == lastMousePosition.clientY
           S == UpdateRotation(Fields, clientX, clientY)
       IN IF S.threw
          THEN /\ NoDraw
               /\ UNCHANGED <<q0, q, azimuth, elevation, drag, isUpdatePending>>
          ELSE /\ q0' = S.q0
               /\ q' = S.q
               /\ azimuth' = S.azimuth
               /\ elevation' = S.elevation
               /\ drag' = S.drag
               /\ Draw(q')
               /\ isUpdatePending' = FALSE
  ELSE /\ NoDraw
       /\ isUpdatePending' = FALSE
       /\ UNCHANGED <<q0, q, azimuth, elevation, drag>>

\* #update(), the body of the callback.  An exception thrown by
\* #updateRotation ends the callback before #draw() and before
\* #isUpdatePending is cleared.
UpdateBody ==
  IF lastMousePosition # Null /\ drag # Null
  THEN LET clientX == lastMousePosition.clientX
           clientY == lastMousePosition.clientY
           box == drag.box
           S == UpdateRotation(Fields, clientX, clientY)
       IN IF IsInBounds(clientX, clientY, box)
          THEN IF S.threw
               THEN /\ NoDraw
                    /\ UNCHANGED <<q0, q, azimuth, elevation, drag,
                                   isUpdatePending>>
               ELSE /\ q0' = S.q0
                    /\ q' = S.q
                    /\ azimuth' = S.azimuth
                    /\ elevation' = S.elevation
                    /\ drag' = S.drag
                    /\ Draw(q')
                    /\ isUpdatePending' = FALSE
          ELSE /\ NoDraw
               /\ isUpdatePending' = FALSE
               /\ UNCHANGED <<q0, q, azimuth, elevation, drag>>
  ELSE /\ NoDraw
       /\ isUpdatePending' = FALSE
       /\ UNCHANGED <<q0, q, azimuth, elevation, drag>>

\* Mutant: #handleMouseUp() without the commit #q0 = #q.
HandleMouseUp_NoCommit ==
  IF drag = Null
  THEN /\ NoDraw
       /\ UNCHANGED <<opts, q0, q, azimuth, elevation, azimuth_start,
                      elevation_start, drag, isUpdatePending,
                      lastMousePosition, frames>>
  ELSE /\ drag' = Null
       /\ lastMousePosition' = Null
       /\ azimuth_start' = azimuth
       /\ elevation_start' = elevation
       /\ Draw(q)
       /\ UNCHANGED <<opts, q0, q, azimuth, elevation, isUpdatePending,
                      frames>>

\* #handleMouseUp()
HandleMouseUp ==
  IF drag = Null
  THEN /\ NoDraw
       /\ UNCHANGED <<opts, q0, q, azimuth, elevation, azimuth_start,
                      elevation_start, drag, isUpdatePending,
                      lastMousePosition, frames>>
  ELSE /\ drag' = Null
       /\ q0' = q
       /\ lastMousePosition' = Null
       /\ azimuth_start' = azimuth
       /\ elevation_start' = elevation
       /\ Draw(q)
       /\ UNCHANGED <<opts, q, azimuth, elevation, isUpdatePending, frames>>

\* ----------------------------------------------------------------- actions
\* The model accepts rotate() and new move samples while the committed
\* orientation is shorter than MaxLen and the start angles are within MaxAngle.
MaxAngle == 2
Small(n) == n.t # "num" \/ (n.a <= MaxAngle /\ 0 - n.a <= MaxAngle)
Room ==
  /\ IsNaNQ(q0) \/ Len(q0) < MaxLen
  /\ Small(azimuth_start) /\ Small(elevation_start)

\* The applied samples of a session are counted up to MaxMoves.
MaxMoves == 3

\* What the next run of #update() does with the recorded sample: "idle" (no
\* sample or no drag), "outside" (out of the session's box), "zero" (no
\* delta), "threw", or "applied".
UpdateOutcome ==
  IF lastMousePosition = Null \/ drag = Null THEN "idle"
  ELSE LET clientX == lastMousePosition.clientX
           clientY == lastMousePosition.clientY
       IN IF ~IsInBounds(clientX, clientY, drag.box) THEN "outside"
          ELSE IF <<clientX, clientY>> = drag.startPosition THEN "zero"
          ELSE IF UpdateRotation(Fields, clientX, clientY).threw THEN "threw"
          ELSE "applied"

Rotate(quaternion) ==
  /\ drag # Null \/ Room
  /\ RotateCall(quaternion)
  /\ last' = [op |-> "rotate", arg |-> quaternion]
  /\ UNCHANGED <<given, session>>

Reset ==
  /\ ResetCall
  /\ last' = [op |-> "reset", arg |-> << >>]
  /\ session' = Null
  /\ UNCHANGED given

\* 'mousedown' on the scene, or 'touchstart' with one touch: the pointer is
\* over the scene's rectangle.
MouseDown(clientX, clientY, box) ==
  /\ IsInBounds(clientX, clientY, box)
  /\ HandleMouseDown(clientX, clientY, box)
  /\ last' = [op |-> "down", arg |-> IF drag = Null THEN "idle" ELSE "dragging"]
  /\ session' = [anchor |-> q0, start |-> <<clientX, clientY>>, moves |-> 0,
                 untouched |-> (drag = Null \/ session.untouched)]
  /\ UNCHANGED given

\* 'mousemove' on the document, or 'touchmove' with one touch
MouseMove(clientX, clientY) ==
  /\ drag = Null \/ Room
  /\ HandleMouseMove(clientX, clientY)
  /\ last' = [op |-> "move", arg |-> << >>]
  /\ UNCHANGED <<given, session>>

\* The frame scheduler runs a callback handed to requestAnimationFrame.
Update ==
  /\ frames > 0
  /\ frames' = frames - 1
  /\ UpdateBody
  /\ UNCHANGED <<opts, azimuth_start, elevation_start, lastMousePosition>>
  /\ last' = [op |-> "update", arg |-> UpdateOutcome]
  /\ session' = IF UpdateOutcome = "applied" /\ session # Null
                THEN [session EXCEPT !.moves = Min2(@ + 1, MaxMoves),
                                     !.untouched = FALSE]
                ELSE session
  /\ UNCHANGED given

\* 'mouseup' on the document, or 'touchend' with one changed touch
MouseUp ==
  /\ HandleMouseUp
  /\ last' = [op |-> "up", arg |-> IF drag = Null THEN "idle" ELSE "ended"]
  /\ session' = Null
  /\ UNCHANGED given

\* A 'touchstart' or 'touchmove' whose touches, or a 'touchend' whose
\* changedTouches, do not have length 1: the listener calls no handler.
TouchIgnored == UNCHANGED vars

Next ==
  \/ \E r \in RotateArgs : Rotate(r)
  \/ Reset
  \/ \E p \in Positions, b \in Boxes : MouseDown(p[1], p[2], b)
  \/ \E p \in Positions : MouseMove(p[1], p[2])
  \/ Update
  \/ MouseUp
  \/ TouchIgnored

Spec == Init /\ [][Next]_vars

\* ------------------------------------------------------------------ claims
\* The recorded sample, as a position.
Sample == <<lastMousePosition.clientX, lastMousePosition.clientY>>

\* The last event was a run of #update() that applied its sample.
Applied == last.op = "update" /\ last.arg = "applied"

\* C1: whenever no drag is active, the committed orientation #q0 and the
\* current orientation #q are the same quaternion.
C1_IdleCommittedIsCurrent == drag = Null => q0 = q

\* An idle controller right after the pointer-up of a 'shoemake' drag whose
\* applied move left a rotation in the orientation.
C1_Witness ==
  /\ drag = Null /\ last.op = "up" /\ opts.rotationMethod = "shoemake"
  /\ Len(q) >= 2 /\ q[1][1] = "V" /\ q0 = q

\* C2: for the seven rotation methods the current orientation is always a
\* well-defined unit quaternion, never one with NaN components.
C2_CurrentIsUnit == opts.rotationMethod \in Methods => ~IsNaNQ(q)

\* C3: rotate() called while a drag is active changes neither orientation,
\* nor the azimuth/elevation state, nor the drag session, nor the pending
\* frame update.
C3_RotateWhileDraggingIsNoOp ==
  [][(drag # Null /\ last'.op = "rotate") =>
       UNCHANGED <<q, q0, azimuth, elevation, azimuth_start, elevation_start,
                   drag, isUpdatePending, lastMousePosition, frames, shown>>]_vars

\* rotate() was called in the middle of a drag that has moved the current
\* orientation away from the committed one.
C3_Witness == last.op = "rotate" /\ drag # Null /\ q # q0

\* C4: rotate(r) called while idle sets the committed orientation to
\* committed * r (r on the right) and the current orientation to the same value.
C4_RotateIdleRightMultiplies ==
  [][(drag = Null /\ last'.op = "rotate") =>
       (q0' = Mul(q0, last'.arg) /\ q' = q0')]_vars

\* An idle rotate(r) after a committed trackball drag: the committed
\* orientation is the drag's rotation with r on its right.
C4_Witness ==
  /\ last.op = "rotate" /\ drag = Null /\ q = q0
  /\ Len(q0) = 2 /\ q0[1][1] = "T" /\ q0[2] = last.arg[1]

C6_AzElContinuesFromPreviousEnd ==
  (opts.rotationMethod = "azel" /\ Applied) =>
    LET dx == Sample[1] - drag.startPosition[1]
        dy == Sample[2] - drag.startPosition[2]
    IN /\ azimuth.t = "num"
       /\ elevation.t = "num"
       /\ azimuth_start.t = "num"
       /\ elevation_start.t = "num"
       /\ azimuth = AddUnits(azimuth_start, dx * Scale(drag.box))
       /\ ~opts.clampElevation =>
            elevation = AddUnits(elevation_start, dy * Scale(drag.box))

\* C7: for 'trackball' and 'sphere', when a session has applied exactly one
\* move and then applies a move back to its pointer-down position, the
\* current orientation is the committed orientation the session started with.
C7_RoundTripRestoresAnchor ==
  [][(/\ opts.rotationMethod \in {"trackball", "sphere"}
      /\ session # Null /\ session.moves = 1
      /\ lastMousePosition # Null /\ Sample = session.start
      /\ last'.op = "update" /\ last'.arg = "applied")
     => q' = session.anchor]_vars

\* A session that started from a rotated orientation, moved away and back.
C7_Witness ==
  /\ opts.rotationMethod \in {"trackball", "sphere"}
  /\ Applied /\ session # Null /\ session.moves = 2
  /\ Sample = session.start /\ session.anchor # ONE /\ q = session.anchor

\* C8: a frame update whose sample is at the session's current start position
\* changes no orientation, no azimuth/elevation value and nothing of the
\* session.
C8_ZeroDeltaChangesNothing ==
  [][(/\ drag # Null /\ lastMousePosition # Null
      /\ Sample = drag.startPosition
      /\ last'.op = "update")
     => UNCHANGED <<q, q0, azimuth, elevation, azimuth_start, elevation_start,
                    drag>>]_vars

\* A zero-delta sample applied after a move had rotated the current
\* orientation away from the committed one.
C8_Witness == last.op = "update" /\ last.arg = "zero" /\ q # q0

\* C9: the stored rotation method is always one of the seven named methods.
C9_MethodIsOneOfSeven == opts.rotationMethod \in Methods

\* C10: the quaternion most recently passed to onDraw is the current
\* orientation, and construction, pointer-down, an applied frame update, a
\* pointer-up that ends a drag, an idle rotate() and reset() each end with a
\* draw of it.
C10_DrawShowsCurrent ==
  /\ shown = q
  /\ (\/ last.op \in {"new", "down", "reset"}
      \/ (last.op = "up" /\ last.arg = "ended")
      \/ Applied
      \/ (last.op = "rotate" /\ drag = Null)) => drawn = <<q>>

\* An applied frame update that changed the current orientation and drew it.
C10_Witness == Applied /\ q # q0 /\ drawn = <<q>> /\ shown = q

\* C11: the options invertX, invertY and speed take effect: in 'azel' mode
\* without clamping, an applied move with delta (dx, dy) from number
\* snapshots (A, E) sets azimuth to A + sx * speed * dx * scale and elevation
\* to E + sy * speed * dy * scale, where sx (resp. sy) is -1 with invertX
\* (resp. invertY) set and 1 otherwise.
C11_OptionsTakeEffect ==
  (/\ opts.rotationMethod = "azel" /\ ~opts.clampElevation /\ Applied
   /\ azimuth_start.t = "num" /\ elevation_start.t = "num") =>
    LET dx == Sample[1] - drag.startPosition[1]
        dy == Sample[2] - drag.startPosition[2]
        sx == IF given.invertX THEN -1 ELSE 1
        sy == IF given.invertY THEN -1 ELSE 1
        scale == Scale(drag.box)
    IN /\ azimuth = AddUnits(azimuth_start, sx * given.speed * dx * scale)
       /\ elevation = AddUnits(elevation_start, sy * given.speed * dy * scale)

\* n is a number of [-pi/2 + 0.01, pi/2 - 0.01].
InClampRange(n) ==
  n.t = "num" /\ ~NumLess(n, ClampLow) /\ ~NumLess(ClampHigh, n)

\* C12: in 'azel' mode with clampElevation set, the drag-start snapshot of the
\* elevation is always a number of [-pi/2 + 0.01, pi/2 - 0.01], and so is the
\* elevation once a move or reset() has assigned it.
C12_ElevationStaysClamped ==
  (opts.rotationMethod = "azel" /\ opts.clampElevation) =>
    /\ InClampRange(elevation_start)
    /\ elevation = Undefined \/ InClampRange(elevation)

\* The methods that keep the drag anchor for the whole session.
FixedAnchor == {"trackball_no_precession", "shoemake", "rounded_arcball", "bell"}

\* The orientation a fixed-anchor method shows for a sample at another
\* position than the session's start: the rotation of the delta from the
\* start (for the arcball methods, the rotation between the two projections,
\* applied twice) on the left of the anchor orientation.
FromAnchor(anchor, start, sample, box) ==
  IF opts.rotationMethod = "trackball_no_precession"
  THEN Mul(TrackballDq(sample[1] - start[1], sample[2] - start[2],
                       Min2(box.height, box.width)), anchor)
  ELSE LET dq == FromVectors(Project(start[1], start[2], box),
                             Project(sample[1], sample[2], box))
       IN Mul(dq, Mul(dq, anchor))

\* C13: for the fixed-anchor methods, throughout a drag the committed
\* orientation is the one the session started with, the start position and
\* start vector are those of the pointer-down, and an applied sample shows the
\* rotation of its delta from that start position applied to that orientation.
C13_FixedAnchorKeepsStart ==
  (opts.rotationMethod \in FixedAnchor /\ drag # Null) =>
    /\ q0 = session.anchor
    /\ drag.startPosition = session.start
    /\ drag.startVector =
         Project(session.start[1], session.start[2], drag.box)
    /\ Applied => q = FromAnchor(session.anchor, session.start, Sample, drag.box)

\* A fixed-anchor session after its second applied sample: the current
\* orientation has left the committed one, which is still the anchor.
C13_Witness ==
  /\ opts.rotationMethod \in FixedAnchor /\ drag # Null
  /\ Applied /\ session.moves = 2 /\ session.anchor # ONE
  /\ q # q0 /\ q0 = session.anchor

\* C14: for 'trackball' and 'sphere', right after an applied move sample the
\* committed orientation is the current one and the session's start position
\* is that sample's position; for 'sphere' the start vector is that sample's
\* projection.
C14_PerSampleCommit ==
  (opts.rotationMethod \in {"trackball", "sphere"} /\ Applied) =>
    /\ q0 = q
    /\ drag.startPosition = Sample
    /\ opts.rotationMethod = "sphere" =>
         drag.startVector = Project(Sample[1], Sample[2], drag.box)

\* A 'sphere' session after its second applied sample, at another position
\* than its pointer-down.
C14_Witness ==
  /\ opts.rotationMethod = "sphere" /\ Applied /\ session.moves = 2
  /\ Sample # session.start /\ drag.startPosition = Sample
  /\ q0 = q /\ q0 # session.anchor

\* C15: with one of the seven methods, a frame update that runs right after
\* the pointer-down that started a session from idle, so that its callback was
\* scheduled and its sample recorded before that session, changes no
\* orientation, no azimuth/elevation value and nothing of the session, and
\* draws nothing.
C15_StaleSampleNeverApplied ==
  [][(/\ opts.rotationMethod \in Methods
      /\ last.op = "down" /\ last.arg = "idle" /\ last'.op = "update")
     => /\ UNCHANGED <<q, q0, azimuth, elevation, azimuth_start,
                       elevation_start, drag>>
        /\ drawn' = << >>]_vars

\* C16: at most one frame-update callback is outstanding with the frame
\* scheduler, and #isUpdatePending is true exactly when one is.
C16_OneCallbackOutstanding ==
  frames <= 1 /\ (isUpdatePending <=> frames = 1)

\* C17: a pointer-down received while a drag is active leaves the session's
\* start position, start vector and box as they were.
C17_SecondPointerDownIgnored ==
  [][(drag # Null /\ last'.op = "down") => UNCHANGED drag]_vars

\* C18: during a drag, a frame update whose sample lies outside the box the
\* session captured at its pointer-down changes no orientation, no
\* azimuth/elevation value and nothing of the session, and draws nothing.
C18_OutOfBoundsSampleDropped ==
  [][(/\ drag # Null /\ lastMousePosition # Null
      /\ ~IsInBounds(Sample[1], Sample[2], drag.box)
      /\ last'.op = "update")
     => /\ UNCHANGED <<q, q0, azimuth, elevation, azimuth_start,
                       elevation_start, drag, shown>>
        /\ drawn' = << >>]_vars

\* A sample outside the session's box, dropped after an earlier sample had
\* rotated the current orientation away from the committed one.
C18_Witness ==
  /\ last.op = "update" /\ last.arg = "outside" /\ drag # Null
  /\ q # q0 /\ session.moves >= 1 /\ drawn = << >>

\* C19: for the fixed-anchor methods, after a frame update has handled an
\* in-bounds sample the current orientation is a function of the session's
\* anchor orientation and the sample's position alone: the anchor orientation
\* itself for a sample at the session's start position, and the rotation of
\* the sample's delta applied to the anchor otherwise.
C19_CurrentDependsOnSampleOnly ==
  (/\ opts.rotationMethod \in FixedAnchor
   /\ last.op = "update" /\ last.arg \in {"applied", "zero"}) =>
    q = IF Sample = session.start
        THEN session.anchor
        ELSE FromAnchor(session.anchor, session.start, Sample, drag.box)

\* C20: with one of the seven methods, a pointer-up that ends a drag in which
\* no sample has been applied since the controller was idle leaves both
\* orientations, azimuth, elevation and their drag-start snapshots as they
\* are (and as they were before the pointer-down, which assigns none of them).
C20_EmptyDragChangesNothing ==
  [][(/\ opts.rotationMethod \in Methods
      /\ drag # Null /\ session.untouched /\ last'.op = "up")
     => UNCHANGED <<q, q0, azimuth, elevation, azimuth_start,
                    elevation_start>>]_vars

\* C21: in 'azel' mode, after an applied move the current orientation is
\* fromEuler(elevation, azimuth, 0, 'XYZ'), with the two angles computed from
\* their drag-start snapshots and the sample's delta alone: neither the
\* committed orientation, nor the initial q, nor an earlier rotate() enters.
C21_AzElIgnoresCommitted ==
  (opts.rotationMethod = "azel" /\ Applied) =>
    LET dx == Sample[1] - drag.startPosition[1]
        dy == Sample[2] - drag.startPosition[2]
        raw == AddUnits(elevation_start, dy * Scale(drag.box))
    IN /\ azimuth = AddUnits(azimuth_start, dx * Scale(drag.box))
       /\ elevation = IF opts.clampElevation
                      THEN MathMax(ClampLow, MathMin(ClampHigh, raw))
                      ELSE raw
       /\ q = FromEuler(elevation, azimuth)

\* An applied 'azel' move in a session whose committed orientation is a
\* rotation given as the q option or by rotate(): the current orientation is
\* the Euler rotation alone.
C21_Witness ==
  /\ opts.rotationMethod = "azel" /\ Applied
  /\ q0 # ONE /\ q0[1][1] = "R" /\ q0 = session.anchor
  /\ Len(q) = 1 /\ q[1][1] = "E"

=============================================================================
